---------------------------- MODULE Spec2Model ----------------------------
(***************************************************************************)
(* Stacked denoising auto-encoder training (code/SdA.py): greedy           *)
(* layer-wise pretraining, joint fine-tuning and the patience-based early  *)
(* stopping of sgd_optimization_mnist.                                     *)
(*                                                                         *)
(* Numbers.  Parameters, inputs and gradients are abstracted to residues   *)
(* modulo PMod: every tensor is one residue, and "param - lr * grad" is    *)
(* subtraction modulo PMod.  The abstraction keeps which quantities each   *)
(* symbolic expression of the source depends on.  Error rates are          *)
(* integers in units of 1/10000, improvement_threshold is the fraction     *)
(* ThresholdNum / ThresholdDen, and float('inf') is the value inf.         *)
(***************************************************************************)
EXTENDS Integers, Sequences, FiniteSets, TLC

\* ------------------------------------------------------------------ bounds
PMod == 3                      \* size of the abstract value domain
MaxData == 0                   \* datasets 0 .. MaxData
MaxPretrainingEpochs == 1      \* pretraining_epochs in 0 .. MaxPretrainingEpochs
MaxTrainingEpochs == 4         \* training_epochs in 0 .. MaxTrainingEpochs
MaxTrainBatches == 2           \* n_train_batches in 1 .. MaxTrainBatches
InitialPatience == 4           \* the source's 10000, scaled to the epochs above
MaxFed == 5                    \* length of a scripted validation sequence
n_valid_batches == 2           \* minibatches of the validation set
n_test_batches == 2            \* minibatches of the test set
MaxSize == 2                   \* n_ins and the hidden sizes are in 1 .. MaxSize
MaxLayers == 3                 \* len(hidden_layers_sizes) in 0 .. MaxLayers
MaxNdim == 2                   \* y.ndim in 0 .. MaxNdim
MaxLength == 2                 \* vectors of 1 .. MaxLength entries
MaxDim == 2                    \* n_visible, n_hidden of the dA taken alone
MaxExamples == 4               \* a dataset has 0 .. MaxExamples examples
MaxBatchSize == 2              \* batch_size in 1 .. MaxBatchSize

\* ------------------------------------------------------- program constants
n_layers == 3                  \* len(hidden_layers_sizes)
patience_increase == 2
ThresholdNum == 995            \* improvement_threshold = 0.995
ThresholdDen == 1000
inf == -1                      \* float('inf'); never a valid error rate

PVal == 0 .. (PMod - 1)
Layers == 0 .. (n_layers - 1)

Min(a, b) == IF a < b THEN a ELSE b
Max(a, b) == IF a > b THEN a ELSE b

\* ------------------------------------------------------------ the dataset
\* minibatch k of a partition: x[index*batch_size:(index+1)*batch_size]
train_x(d, k) == (d + k) % PMod
train_y(d, k) == (d + 2 * k + 1) % PMod
valid_x(d, k) == (d + k + 1) % PMod
valid_y(d, k) == (2 * d + k) % PMod
test_x(d, k) == (d + 2 * k + 2) % PMod
test_y(d, k) == (2 * d + k + 1) % PMod

\* ----------------------------------------------------- the symbolic graph
sigmoid(u) == (u + 1) % PMod

\* tied weights: W_prime is W transpose
W_prime(Wk) == Wk

\* dA.hidden_values of layer k for network input x: the clean encoding,
\* whose input is the hidden_values of the layer below (k = -1: x itself)
RECURSIVE hidden_values(_, _, _, _)
hidden_values(Wf, bf, k, x) ==
    IF k < 0 THEN x
    ELSE sigmoid(hidden_values(Wf, bf, k - 1, x) * Wf[k] + bf[k])

\* dA.cost of layer k: tilde_x, y, z and the cross-entropy L
layer_cost(Wf, bf, bpf, k, x, mask) ==
    LET inp == hidden_values(Wf, bf, k - 1, x)
        tilde_x == mask * inp
        y == sigmoid(tilde_x * Wf[k] + bf[k])
        z == sigmoid(y * W_prime(Wf[k]) + bpf[k])
    IN  (inp + 2 * z) % PMod

\* LogisticRegression on the top layer's hidden_values
y_pred(Wf, bf, lW, lb, x) ==
    (hidden_values(Wf, bf, n_layers - 1, x) * lW + lb) % PMod

negative_log_likelihood(Wf, bf, lW, lb, x, y) ==
    (y_pred(Wf, bf, lW, lb, x) + 2 * y + 1) % PMod

\* LogisticRegression.errors: the error rate of one minibatch
errors(Wf, bf, lW, lb, x, y) ==
    LET d == (y_pred(Wf, bf, lW, lb, x) + PMod - y) % PMod
    IN  CASE d = 0 -> 3990
          [] d = 1 -> 4000
          [] OTHER -> 5000

\* T.grad(cost, param): param is told apart by its tag
grad(cost, tag) == (cost + tag) % PMod

\* param - lr * grad
sgd(p, g) == (p + PMod - g) % PMod

RECURSIVE SumSeq(_)
SumSeq(s) == IF s = <<>> THEN 0 ELSE Head(s) + SumSeq(Tail(s))

\* numpy.mean
mean(s) == SumSeq(s) \div Len(s)


\* ------------------------------------------------------------------ state
VARIABLES
    data,                  \* the loaded dataset
    pretraining_epochs,    \* argument of sgd_optimization_mnist
    training_epochs,       \* argument of sgd_optimization_mnist
    n_train_batches,       \* train_set_x.shape[0] / batch_size
    W, b, b_prime,         \* classifier.layers[k].W, .b, .b_prime
    logW, logb,            \* classifier.logLayer.W, .b
    pc,                    \* "pretrain", "finetune", "done", or "script"
    i,                     \* layer being pretrained
    epoch,                 \* epoch of the running loop
    batch_index,           \* minibatch of the pretraining loop
    minibatch_index,       \* minibatch of the fine-tuning loop
    iter,                  \* epoch * n_train_batches + minibatch_index
    patience,
    best_validation_loss,
    best_iter,
    test_score,
    best_params,           \* None, or a saved copy of the parameters
    this_validation_loss,  \* the latest validation error
    preSteps,              \* history: layer_update calls made, per layer
    nsteps,                \* history: train_model calls made
    invoked,               \* history: the latest step validated
    broke,                 \* history: the break of line 510 was taken
    touched,               \* history: parameters the latest update changed
    prev,                  \* history: the bookkeeping before the latest step
    seen,                  \* history: every validation made: iter, error, test error
    fed,                   \* history: validation errors fed by a script
    n_ins,                 \* argument of SdA.__init__
    hidden_layers_sizes,   \* argument of SdA.__init__
    layers,                \* self.layers of the SdA
    logLayer,              \* self.logLayer of the SdA, None until it is set
    raised,                \* the exception that ended SdA.__init__, or None
    call,                  \* the call of logLayer.errors and its outcome, or None
    tied,                  \* one dA with its weights as matrices, or None
    batch_size,            \* size of the minibatch
    n_examples,            \* shape[0] of train_set_x, valid_set_x, test_set_x
    visits                 \* history: per example, the minibatches run that held it

vars == << data, pretraining_epochs, training_epochs, n_train_batches,
           W, b, b_prime, logW, logb, pc, i, epoch, batch_index,
           minibatch_index, iter, patience, best_validation_loss, best_iter,
           test_score, this_validation_loss, preSteps, nsteps, invoked,
           broke, touched, prev, seen, fed,
           best_params,
           n_ins, hidden_layers_sizes, layers, logLayer, raised, call,
           tied,
           batch_size, n_examples, visits >>

config == << data, pretraining_epochs, training_epochs, n_train_batches >>
earlystop == << patience, best_validation_loss, best_iter, test_score >>
sda == << n_ins, hidden_layers_sizes, layers, logLayer, raised, call >>
batches == << batch_size, n_examples, visits >>

\* a name not yet bound (iter, best_iter before their first assignment)
unbound == -1

\* Python's None, as the value of best_params
None == << >>

\* names of the parameters, for the history variable touched
PName(kind, k) == << kind, k >>

Changed(Wf, bf, bpf, lW, lb, new) ==
    {PName("W", k) : k \in {j \in Layers : new.W[j] # Wf[j]}}
    \cup {PName("b", k) : k \in {j \in Layers : new.b[j] # bf[j]}}
    \cup {PName("b_prime", k) : k \in {j \in Layers : new.b_prime[j] # bpf[j]}}
    \cup (IF new.logW # lW THEN {PName("logW", n_layers)} ELSE {})
    \cup (IF new.logb # lb THEN {PName("logb", n_layers)} ELSE {})

\* validation_frequency = min(n_train_batches, patience/2), set once
validation_frequency == Min(n_train_batches, InitialPatience \div 2)

\* where the program goes once the pretraining loops are over
AfterPretraining == IF training_epochs = 0 THEN "done" ELSE "finetune"

\* ------------------------------------------------------- the minibatches
\* shape[0] / batch_size, a division of integers
NBatches(size, bs) == size \div bs

\* data[index*batch_size : (index+1)*batch_size] of a dataset of size
\* examples, numbered from 0: a slice stops at the end of the data
Slice(size, bs, index) ==
    {e \in 0 .. (size - 1) : index * bs <= e /\ e < (index + 1) * bs}

\* one more run of a compiled function on the examples of S
Visit(count, S) ==
    [e \in DOMAIN count |-> IF e \in S THEN count[e] + 1 ELSE count[e]]

\* [f(j) for j in xrange(n)]: f run on the minibatches 0 .. n-1
RECURSIVE VisitAll(_, _, _, _)
VisitAll(count, size, bs, n) ==
    IF n = 0 THEN count
    ELSE Visit(VisitAll(count, size, bs, n - 1), Slice(size, bs, n - 1))

\* --------------------------------------------- the construction of the SdA
\* A symbolic expression of the input x.  enc lists the layers whose encoder
\* sigmoid(dot(., W) + b) it went through, innermost first; noise is the set
\* of layers whose corruption mask it went through.
input_x == [enc |-> << >>, noise |-> {}]

\* theano_rng.binomial(e.shape, 1, 0.9) * e, in layer k
Corrupt(e, k) == [e EXCEPT !.noise = @ \cup {k}]

\* sigmoid(dot(e, W) + b) with W and b of layer k
Encode(e, k) == [e EXCEPT !.enc = Append(@, k)]

\* the shared variables an expression reads
Params(e) ==
    UNION {{PName("W", e.enc[j]), PName("b", e.enc[j])} : j \in DOMAIN e.enc}

\* dA.__init__; k tells the shared variables of this dA from the others'
dA(n_visible, n_hidden, input, k) ==
    [n_visible |-> n_visible,
     n_hidden |-> n_hidden,
     x |-> input,
     tilde_x |-> Corrupt(input, k),
     y |-> Encode(Corrupt(input, k), k),
     hidden_values |-> Encode(input, k)]

\* LogisticRegression.__init__; y_pred = argmax(p_y_given_x, axis=1) is a
\* vector
LogisticRegression(input, n_in, n_out) ==
    [input |-> input, n_in |-> n_in, n_out |-> n_out, y_pred_ndim |-> 1]

\* n_outs of the SdA that sgd_optimization_mnist builds
n_outs == 10

\* an exception, by the name of its class and what it is about
Exception(type, about) == [type |-> type, about |-> about]

\* the first layer: dA(n_ins, hidden_layers_sizes[0], input = input)
FirstLayer(nin, hls) == dA(nin, hls[1], input_x, 0)

\* mutant: the next layer is stacked on the corrupted encoding y
NextLayer_OnCorrupted(ls, hls, j) ==
    dA(hls[j], hls[j + 1], ls[Len(ls)].y, Len(ls))

\* mutant: the next layer's input size is its own hidden size
NextLayer_SquareSizes(ls, hls, j) ==
    dA(hls[j + 1], hls[j + 1], ls[Len(ls)].hidden_values, Len(ls))

\* the layer the loop adds at Python index j >= 1:
\* dA(hidden_layers_sizes[j-1], hidden_layers_sizes[j],
\*    input = self.layers[-1].hidden_values)
NextLayer(ls, hls, j) ==
    dA(hls[j], hls[j + 1], ls[Len(ls)].hidden_values, Len(ls))

\* self.layers once m >= 1 layers are made
RECURSIVE Stack(_, _, _)
Stack(nin, hls, m) ==
    IF m = 1 THEN << FirstLayer(nin, hls) >>
    ELSE LET below == Stack(nin, hls, m - 1)
         IN  Append(below, NextLayer(below, hls, m - 1))

\* LogisticRegression(input = self.layers[-1].hidden_values,
\*                    n_in = hidden_layers_sizes[-1], n_out = n_outs)
TopLayer(ls, hls) ==
    LogisticRegression(ls[Len(ls)].hidden_values, hls[Len(hls)], n_outs)

\* dtype.startswith('int'); a dtype is its kind and its width in bits
StartsWithInt(dtype) == dtype[1] = "int"

\* LogisticRegression.errors(y), as far as the call itself goes: the
\* exception it raises or the expression it returns.  The raise of line 100
\* names target, which is bound nowhere.
LogisticRegression_errors(self, lab) ==
    IF lab.ndim # self.y_pred_ndim
    THEN [raised |-> Exception("NameError", "target"), returned |-> None]
    ELSE IF StartsWithInt(lab.dtype)
    THEN [raised |-> None,
          returned |-> [op |-> "mean",
                        of |-> [op |-> "neq", left |-> "y_pred", right |-> "y"]]]
    ELSE [raised |-> Exception("NotImplementedError", "y.dtype"),
          returned |-> None]

Init ==
    /\ data \in 0 .. MaxData
    /\ pretraining_epochs \in 0 .. MaxPretrainingEpochs
    /\ training_epochs \in 0 .. MaxTrainingEpochs
    /\ n_train_batches \in 1 .. MaxTrainBatches
    /\ W \in [Layers -> PVal]
    /\ b = [k \in Layers |-> 0]
    /\ b_prime = [k \in Layers |-> 0]
    /\ logW = 0
    /\ logb = 0
    /\ pc = IF pretraining_epochs = 0 THEN AfterPretraining ELSE "pretrain"
    /\ i = 0
    /\ epoch = 0
    /\ batch_index = 0
    /\ minibatch_index = 0
    /\ iter = unbound
    /\ patience = InitialPatience
    /\ best_validation_loss = inf
    /\ best_iter = unbound
    /\ test_score = 0
    /\ this_validation_loss = inf
    /\ preSteps = [k \in Layers |-> 0]
    /\ nsteps = 0
    /\ invoked = FALSE
    /\ broke = FALSE
    /\ touched = {}
    /\ prev = [patience |-> InitialPatience, best_validation_loss |-> inf,
               best_iter |-> unbound, test_score |-> 0]
    /\ seen = << >>
    /\ best_params = None
    /\ fed = << >>
    /\ n_ins = 28 * 28
    /\ hidden_layers_sizes = << 500, 500, 500 >>
    /\ layers = Stack(28 * 28, << 500, 500, 500 >>, n_layers)
    /\ logLayer = TopLayer(Stack(28 * 28, << 500, 500, 500 >>, n_layers),
                           << 500, 500, 500 >>)
    /\ raised = None
    /\ call = None
    /\ tied = None
    /\ batch_size = 20
    /\ n_examples = [train |-> n_train_batches * 20,
                     valid |-> n_valid_batches * 20,
                     test |-> n_test_batches * 20]
    /\ visits = None

\* ------------------------------------------------------------ pretraining
\* mutant: the reconstruction gradient also flows into the layer below
layer_update_IntoLowerLayer(Wf, bf, bpf, k, x, mask) ==
    LET cost == layer_cost(Wf, bf, bpf, k, x, mask)
        low == IF k > 0 THEN k - 1 ELSE k
        Wn == [Wf EXCEPT ![k] = sgd(Wf[k], grad(cost, 1))]
    IN  [W |-> [Wn EXCEPT ![low] = sgd(Wn[low], 1)],
         b |-> [bf EXCEPT ![k] = sgd(bf[k], grad(cost, 2))],
         b_prime |-> [bpf EXCEPT ![k] = sgd(bpf[k], grad(cost, 3))]]

\* layer_update of layer k: one gradient step on that layer's W, b, b_prime
layer_update(Wf, bf, bpf, k, x, mask) ==
    LET cost == layer_cost(Wf, bf, bpf, k, x, mask)
        new_W == sgd(Wf[k], grad(cost, 1))
        new_b == sgd(bf[k], grad(cost, 2))
        new_b_prime == sgd(bpf[k], grad(cost, 3))
    IN  [W |-> [Wf EXCEPT ![k] = new_W],
         b |-> [bf EXCEPT ![k] = new_b],
         b_prime |-> [bpf EXCEPT ![k] = new_b_prime]]

\* mutant: the layer loop is the innermost one
PretrainAdvance_LayerInnermost(layer, ep, bi) ==
    IF layer + 1 < n_layers THEN [i |-> layer + 1, epoch |-> ep, batch_index |-> bi]
    ELSE IF bi + 1 < n_train_batches THEN [i |-> 0, epoch |-> ep, batch_index |-> bi + 1]
    ELSE IF ep + 1 < pretraining_epochs THEN [i |-> 0, epoch |-> ep + 1, batch_index |-> 0]
    ELSE [i |-> n_layers, epoch |-> 0, batch_index |-> 0]

\* mutant: an epoch ends one minibatch early
PretrainAdvance_EpochCutShort(layer, ep, bi) ==
    IF bi + 2 < n_train_batches THEN [i |-> layer, epoch |-> ep, batch_index |-> bi + 1]
    ELSE IF ep + 1 < pretraining_epochs THEN [i |-> layer, epoch |-> ep + 1, batch_index |-> 0]
    ELSE [i |-> layer + 1, epoch |-> 0, batch_index |-> 0]

\* the position after (layer, epoch, batch) in the three nested loops;
\* layer = n_layers when they are over
PretrainAdvance(layer, ep, bi) ==
    IF bi + 1 < n_train_batches THEN [i |-> layer, epoch |-> ep, batch_index |-> bi + 1]
    ELSE IF ep + 1 < pretraining_epochs THEN [i |-> layer, epoch |-> ep + 1, batch_index |-> 0]
    ELSE [i |-> layer + 1, epoch |-> 0, batch_index |-> 0]

PretrainStep ==
    /\ pc = "pretrain"
    /\ \E mask \in {0, 1} :
        LET new == layer_update(W, b, b_prime, i, train_x(data, batch_index), mask)
            nxt == PretrainAdvance(i, epoch, batch_index)
            over == nxt.i = n_layers
        IN  /\ W' = new.W
            /\ b' = new.b
            /\ b_prime' = new.b_prime
            /\ touched' = Changed(W, b, b_prime, logW, logb,
                                  [W |-> new.W, b |-> new.b, b_prime |-> new.b_prime,
                                   logW |-> logW, logb |-> logb])
            /\ preSteps' = [preSteps EXCEPT ![i] = @ + 1]
            /\ i' = IF over THEN i ELSE nxt.i
            /\ epoch' = nxt.epoch
            /\ batch_index' = IF over THEN batch_index ELSE nxt.batch_index
            /\ pc' = IF over THEN AfterPretraining ELSE "pretrain"
    /\ UNCHANGED << config, logW, logb, minibatch_index, iter, earlystop,
                    this_validation_loss, nsteps, invoked, broke, prev, seen,
                    best_params, fed, sda, tied, batches >>

\* ------------------------------------------------------------ fine-tuning
\* mutant: the layers are updated one after the other, each gradient taken
\* at the parameters the earlier updates left
RECURSIVE LayerByLayer(_, _, _, _, _, _, _)
LayerByLayer(Wf, bf, lW, lb, x, y, k) ==
    IF k < 0 THEN [W |-> Wf, b |-> bf]
    ELSE LET p == LayerByLayer(Wf, bf, lW, lb, x, y, k - 1)
             cost == negative_log_likelihood(p.W, p.b, lW, lb, x, y)
         IN  [W |-> [p.W EXCEPT ![k] = sgd(p.W[k], grad(cost, 2 * k + 1))],
              b |-> [p.b EXCEPT ![k] = sgd(p.b[k], grad(cost, 2 * k + 2))]]

train_model_LayerByLayer(Wf, bf, bpf, lW, lb, x, y) ==
    LET p == LayerByLayer(Wf, bf, lW, lb, x, y, n_layers - 1)
        cost == negative_log_likelihood(p.W, p.b, lW, lb, x, y)
    IN  [W |-> p.W,
         b |-> p.b,
         b_prime |-> bpf,
         logW |-> sgd(lW, grad(cost, 2 * n_layers + 1)),
         logb |-> sgd(lb, grad(cost, 2 * n_layers + 2))]

\* mutant: the decode biases are in the updates list too
train_model_WithDecodeBias(Wf, bf, bpf, lW, lb, x, y) ==
    LET cost == negative_log_likelihood(Wf, bf, lW, lb, x, y)
    IN  [W |-> [k \in Layers |-> sgd(Wf[k], grad(cost, 2 * k + 1))],
         b |-> [k \in Layers |-> sgd(bf[k], grad(cost, 2 * k + 2))],
         b_prime |-> [k \in Layers |-> sgd(bpf[k], grad(cost, k + 1))],
         logW |-> sgd(lW, grad(cost, 2 * n_layers + 1)),
         logb |-> sgd(lb, grad(cost, 2 * n_layers + 2))]

\* train_model: the updates list holds W and b of every layer and W and b
\* of the logistic layer; every new value is an expression of the shared
\* variables as they are before the call
train_model(Wf, bf, bpf, lW, lb, x, y) ==
    LET cost == negative_log_likelihood(Wf, bf, lW, lb, x, y)
    IN  [W |-> [k \in Layers |-> sgd(Wf[k], grad(cost, 2 * k + 1))],
         b |-> [k \in Layers |-> sgd(bf[k], grad(cost, 2 * k + 2))],
         b_prime |-> bpf,
         logW |-> sgd(lW, grad(cost, 2 * n_layers + 1)),
         logb |-> sgd(lb, grad(cost, 2 * n_layers + 2))]

\* numpy.mean([validate_model(i) for i in xrange(n_valid_batches)])
validate(Wf, bf, lW, lb, d) ==
    mean([j \in 1 .. n_valid_batches |->
            errors(Wf, bf, lW, lb, valid_x(d, j - 1), valid_y(d, j - 1))])

\* numpy.mean([test_model(i) for i in xrange(n_test_batches)])
test(Wf, bf, lW, lb, d) ==
    mean([j \in 1 .. n_test_batches |->
            errors(Wf, bf, lW, lb, test_x(d, j - 1), test_y(d, j - 1))])

\* mutant: a tie counts as a new best
Less_OrEqual(v, best) == IF best = inf THEN TRUE ELSE v <= best

\* this_validation_loss < best_validation_loss
Less(v, best) == IF best = inf THEN TRUE ELSE v < best

\* this_validation_loss < best_validation_loss * improvement_threshold
Significant(v, best) ==
    IF best = inf THEN TRUE ELSE v * ThresholdDen < best * ThresholdNum

\* mutant: the best score is saved only under the significance test
EarlyStopping_SkipsInsignificant(st, it, v, t) ==
    IF Less(v, st.best_validation_loss) /\ Significant(v, st.best_validation_loss)
    THEN [patience |-> Max(st.patience, it * patience_increase),
          best_validation_loss |-> v,
          best_iter |-> it,
          test_score |-> t]
    ELSE st

\* mutant: patience = iter * patience_increase, without the max
EarlyStopping_NoMax(st, it, v, t) ==
    IF Less(v, st.best_validation_loss)
    THEN [patience |-> IF Significant(v, st.best_validation_loss)
                       THEN it * patience_increase
                       ELSE st.patience,
          best_validation_loss |-> v,
          best_iter |-> it,
          test_score |-> t]
    ELSE st

\* mutant: the score is saved without the test of line 489
EarlyStopping_AlwaysRecords(st, it, v, t) ==
    [patience |-> IF Significant(v, st.best_validation_loss)
                  THEN Max(st.patience, it * patience_increase)
                  ELSE st.patience,
     best_validation_loss |-> v,
     best_iter |-> it,
     test_score |-> t]

\* mutant: the test error is taken at every validation, best or not
EarlyStopping_TestsEveryTime(st, it, v, t) ==
    IF Less(v, st.best_validation_loss)
    THEN [patience |-> IF Significant(v, st.best_validation_loss)
                       THEN Max(st.patience, it * patience_increase)
                       ELSE st.patience,
          best_validation_loss |-> v,
          best_iter |-> it,
          test_score |-> t]
    ELSE [st EXCEPT !.test_score = t]

\* the early-stopping bookkeeping of one validation, lines 489-502:
\* st is the bookkeeping before it, it the iteration, v the validation
\* error and t the mean test error of the current parameters
EarlyStopping(st, it, v, t) ==
    IF Less(v, st.best_validation_loss)
    THEN [patience |-> IF Significant(v, st.best_validation_loss)
                       THEN Max(st.patience, it * patience_increase)
                       ELSE st.patience,
          best_validation_loss |-> v,
          best_iter |-> it,
          test_score |-> t]
    ELSE st

\* mutant: the loop is left one iteration before patience is reached
Break_OneEarly(p, it) == p <= it + 1

\* if patience <= iter : break
Break(p, it) == p <= it

\* (iter+1) % validation_frequency == 0
Validates(it, freq) == (it + 1) % freq = 0

\* mutant: after a break the epoch is run again from its first minibatch
FineTuneAdvance_BreakRepeatsEpoch(ep, mb, brk) ==
    IF brk THEN [epoch |-> ep, minibatch_index |-> 0]
    ELSE IF mb + 1 < n_train_batches
    THEN [epoch |-> ep, minibatch_index |-> mb + 1]
    ELSE [epoch |-> ep + 1, minibatch_index |-> 0]

\* the loop position after the body ran at (ep, mb); brk: the break was
\* taken.  epoch = training_epochs when the loops are over
FineTuneAdvance(ep, mb, brk) ==
    IF ~brk /\ mb + 1 < n_train_batches
    THEN [epoch |-> ep, minibatch_index |-> mb + 1]
    ELSE [epoch |-> ep + 1, minibatch_index |-> 0]

\* mutant: the parameters of a new best are saved in best_params
best_params_kept_Snapshot(bp, st, v, new) ==
    IF Less(v, st.best_validation_loss) THEN << new >> ELSE bp

\* best_params after a validation: it is set to None before the loops and
\* assigned nowhere in them, whatever the validation finds
best_params_kept(bp, st, v, new) == bp

StopState == [patience |-> patience,
              best_validation_loss |-> best_validation_loss,
              best_iter |-> best_iter,
              test_score |-> test_score]

\* one pass through the body of the loops of lines 471-510
FineTuneStep ==
    /\ pc = "finetune"
    /\ LET new == train_model(W, b, b_prime, logW, logb,
                              train_x(data, minibatch_index),
                              train_y(data, minibatch_index))
           it == epoch * n_train_batches + minibatch_index
           val == Validates(it, validation_frequency)
           v == validate(new.W, new.b, new.logW, new.logb, data)
           t == test(new.W, new.b, new.logW, new.logb, data)
           st == IF val THEN EarlyStopping(StopState, it, v, t) ELSE StopState
           brk == Break(st.patience, it)
           nxt == FineTuneAdvance(epoch, minibatch_index, brk)
           over == nxt.epoch = training_epochs
       IN  /\ W' = new.W
           /\ b' = new.b
           /\ b_prime' = new.b_prime
           /\ logW' = new.logW
           /\ logb' = new.logb
           /\ touched' = Changed(W, b, b_prime, logW, logb, new)
           /\ iter' = it
           /\ this_validation_loss' = IF val THEN v ELSE this_validation_loss
           /\ patience' = st.patience
           /\ best_validation_loss' = st.best_validation_loss
           /\ best_iter' = st.best_iter
           /\ test_score' = st.test_score
           /\ nsteps' = nsteps + 1
           /\ invoked' = val
           /\ broke' = (broke \/ brk)
           /\ prev' = StopState
           /\ seen' = IF val THEN Append(seen, [iter |-> it, v |-> v, t |-> t])
                             ELSE seen
           /\ best_params' = IF val THEN best_params_kept(best_params, StopState, v, new)
                                    ELSE best_params
           /\ epoch' = IF over THEN epoch ELSE nxt.epoch
           /\ minibatch_index' = IF over THEN minibatch_index ELSE nxt.minibatch_index
           /\ pc' = IF over THEN "done" ELSE "finetune"
    /\ UNCHANGED << config, i, batch_index, preSteps, fed, sda, tied, batches >>

Next == PretrainStep \/ FineTuneStep

Spec == Init /\ [][Next]_vars

\* ------------------------------------------- the early stopping, scripted
\* The bookkeeping of lines 489-510 driven by a scripted sequence of
\* validation errors, one per iteration, from patience = 10.  The first
\* iteration is numbered 0 (iter of the first minibatch) or 1.
ScriptErrors == {5000, 4000, 4100, 3900, 3800}

InitScript ==
    /\ data = 0
    /\ pretraining_epochs = 0
    /\ training_epochs = MaxFed
    /\ n_train_batches = 1
    /\ W = [k \in Layers |-> 0]
    /\ b = [k \in Layers |-> 0]
    /\ b_prime = [k \in Layers |-> 0]
    /\ logW = 0
    /\ logb = 0
    /\ pc = "script"
    /\ i = 0
    /\ epoch = 0
    /\ batch_index = 0
    /\ minibatch_index = 0
    /\ iter \in {unbound, 0}
    /\ patience = 10
    /\ best_validation_loss = inf
    /\ best_iter = unbound
    /\ test_score = 0
    /\ this_validation_loss = inf
    /\ preSteps = [k \in Layers |-> 0]
    /\ nsteps = 0
    /\ invoked = FALSE
    /\ broke = FALSE
    /\ touched = {}
    /\ prev = [patience |-> 10, best_validation_loss |-> inf,
               best_iter |-> unbound, test_score |-> 0]
    /\ seen = << >>
    /\ best_params = None
    /\ fed = << >>
    /\ n_ins = 28 * 28
    /\ hidden_layers_sizes = << 500, 500, 500 >>
    /\ layers = Stack(28 * 28, << 500, 500, 500 >>, n_layers)
    /\ logLayer = TopLayer(Stack(28 * 28, << 500, 500, 500 >>, n_layers),
                           << 500, 500, 500 >>)
    /\ raised = None
    /\ call = None
    /\ tied = None
    /\ batch_size = 20
    /\ n_examples = [train |-> n_train_batches * 20,
                     valid |-> n_valid_batches * 20,
                     test |-> n_test_batches * 20]
    /\ visits = None

Feed ==
    /\ pc = "script"
    /\ Len(fed) < MaxFed
    /\ \E v \in ScriptErrors :
        LET it == iter + 1
            t == test(W, b, logW, logb, data)
            st == EarlyStopping(StopState, it, v, t)
        IN  /\ seen' = Append(seen, [iter |-> it, v |-> v, t |-> t])
            /\ best_params' = best_params_kept(best_params, StopState, v,
                                   [W |-> W, b |-> b, b_prime |-> b_prime,
                                    logW |-> logW, logb |-> logb])
            /\ iter' = it
            /\ this_validation_loss' = v
            /\ patience' = st.patience
            /\ best_validation_loss' = st.best_validation_loss
            /\ best_iter' = st.best_iter
            /\ test_score' = st.test_score
            /\ invoked' = TRUE
            /\ broke' = (broke \/ Break(st.patience, it))
            /\ prev' = StopState
            /\ fed' = Append(fed, v)
    /\ UNCHANGED << config, W, b, b_prime, logW, logb, pc, i, epoch,
                    batch_index, minibatch_index, preSteps, nsteps, touched,
                    sda, tied, batches >>

NextScript == Feed

SpecScript == InitScript /\ [][NextScript]_vars

\* ------------------------------------- SdA.__init__ and logLayer.errors
\* SdA(input, n_ins, hidden_layers_sizes, n_outs) built step by step for
\* every small n_ins and hidden_layers_sizes, then logLayer.errors called
\* with label variables of every small description.
training == << data, pretraining_epochs, training_epochs, n_train_batches,
               W, b, b_prime, logW, logb, epoch, batch_index,
               minibatch_index, iter, patience, best_validation_loss,
               best_iter, test_score, this_validation_loss, preSteps, nsteps,
               invoked, broke, touched, prev, seen, fed, best_params >>

DTypes == {<< "int", 32 >>, << "int", 64 >>, << "uint", 8 >>, << "float", 64 >>}

\* a label variable y and the minibatch it is used with: its ndim and dtype,
\* and the number of entries it has when the compiled function runs
Labels == [ndim : 0 .. MaxNdim, dtype : DTypes, length : 1 .. MaxLength]

InitBuild ==
    /\ data = 0
    /\ pretraining_epochs = 0
    /\ training_epochs = 0
    /\ n_train_batches = 1
    /\ W = [k \in Layers |-> 0]
    /\ b = [k \in Layers |-> 0]
    /\ b_prime = [k \in Layers |-> 0]
    /\ logW = 0
    /\ logb = 0
    /\ pc = "construct"
    /\ i = 0
    /\ epoch = 0
    /\ batch_index = 0
    /\ minibatch_index = 0
    /\ iter = unbound
    /\ patience = InitialPatience
    /\ best_validation_loss = inf
    /\ best_iter = unbound
    /\ test_score = 0
    /\ this_validation_loss = inf
    /\ preSteps = [k \in Layers |-> 0]
    /\ nsteps = 0
    /\ invoked = FALSE
    /\ broke = FALSE
    /\ touched = {}
    /\ prev = [patience |-> InitialPatience, best_validation_loss |-> inf,
               best_iter |-> unbound, test_score |-> 0]
    /\ seen = << >>
    /\ best_params = None
    /\ fed = << >>
    /\ n_ins \in 1 .. MaxSize
    /\ hidden_layers_sizes \in UNION {[1 .. m -> 1 .. MaxSize] : m \in 0 .. MaxLayers}
    /\ layers = << >>
    /\ logLayer = None
    /\ raised = None
    /\ call = None
    /\ tied = None
    /\ batch_size = 20
    /\ n_examples = [train |-> n_train_batches * 20,
                     valid |-> n_valid_batches * 20,
                     test |-> n_test_batches * 20]
    /\ visits = None

\* lines 252-255: self.layers = [], then the test of the number of hidden
\* layers; raiseException is a name bound nowhere
CheckSizes ==
    /\ pc = "construct"
    /\ layers' = << >>
    /\ IF Len(hidden_layers_sizes) < 1
       THEN /\ raised' = Exception("NameError", "raiseException")
            /\ pc' = "raised"
       ELSE /\ raised' = raised
            /\ pc' = "first"
    /\ UNCHANGED << training, tied, batches, i, n_ins, hidden_layers_sizes, logLayer, call >>

\* lines 258-259, and the entry of the loop of line 261
AddFirstLayer ==
    /\ pc = "first"
    /\ layers' = layers \o << FirstLayer(n_ins, hidden_layers_sizes) >>
    /\ i' = 1
    /\ pc' = IF 1 < Len(hidden_layers_sizes) THEN "loop" ELSE "logLayer"
    /\ UNCHANGED << training, tied, batches, n_ins, hidden_layers_sizes, logLayer, raised, call >>

\* one pass of the loop of lines 261-270
AddNextLayer ==
    /\ pc = "loop"
    /\ layers' = layers \o << NextLayer(layers, hidden_layers_sizes, i) >>
    /\ IF i + 1 < Len(hidden_layers_sizes)
       THEN i' = i + 1 /\ pc' = "loop"
       ELSE i' = i /\ pc' = "logLayer"
    /\ UNCHANGED << training, tied, batches, n_ins, hidden_layers_sizes, logLayer, raised, call >>

\* lines 273-285
AddLogLayer ==
    /\ pc = "logLayer"
    /\ logLayer' = TopLayer(layers, hidden_layers_sizes)
    /\ pc' = "built"
    /\ UNCHANGED << training, tied, batches, i, n_ins, hidden_layers_sizes, layers, raised, call >>

\* classifier.errors(y) on a built SdA, lines 298-303 and 93-109, for a
\* minibatch of batch examples
Errors ==
    /\ pc = "built"
    /\ \E lab \in Labels, batch \in 1 .. MaxLength :
         call' = [y |-> lab, batch |-> batch,
                  outcome |-> LogisticRegression_errors(logLayer, lab)]
    /\ pc' = "called"
    /\ UNCHANGED << training, tied, batches, i, n_ins, hidden_layers_sizes, layers,
                    logLayer, raised >>

NextBuild ==
    \/ CheckSizes
    \/ AddFirstLayer
    \/ AddNextLayer
    \/ AddLogLayer
    \/ Errors

SpecBuild == InitBuild /\ [][NextBuild]_vars

\* ------------------------------------------------- one dA, W as a matrix
\* A dA taken alone, with W an n_visible x n_hidden matrix of values, to
\* follow self.W_prime = self.W.T through the updates of W.
\* M.T: the entry (c, r) of the transpose is the entry (r, c) of M
T(M) == [c \in DOMAIN M[1] |-> [r \in DOMAIN M |-> M[r][c]]]

\* initial_W, drawn uniformly from an interval around 0: two values stand
\* for it
InitialEntries == {0, 1}

\* W - lr * T.grad(cost, W): the gradient has the shape of W and is taken
\* entry by entry
MatrixStep(M, cost) ==
    [r \in DOMAIN M |->
        [c \in DOMAIN M[r] |-> sgd(M[r][c], grad(cost, r + 2 * c))]]

\* mutant: W_prime is a copy of initial_W.T made by dA.__init__
dA_W_prime_Copied(before, Wnow) == before

\* the value of the expression self.W_prime = self.W.T when the shared
\* variable W holds Wnow; before is the value it had until then
dA_W_prime(before, Wnow) == T(Wnow)

InitTied ==
    /\ data = 0
    /\ pretraining_epochs = 0
    /\ training_epochs = 0
    /\ n_train_batches = 1
    /\ W = [k \in Layers |-> 0]
    /\ b = [k \in Layers |-> 0]
    /\ b_prime = [k \in Layers |-> 0]
    /\ logW = 0
    /\ logb = 0
    /\ pc = "dA"
    /\ i = 0
    /\ epoch = 0
    /\ batch_index = 0
    /\ minibatch_index = 0
    /\ iter = unbound
    /\ patience = InitialPatience
    /\ best_validation_loss = inf
    /\ best_iter = unbound
    /\ test_score = 0
    /\ this_validation_loss = inf
    /\ preSteps = [k \in Layers |-> 0]
    /\ nsteps = 0
    /\ invoked = FALSE
    /\ broke = FALSE
    /\ touched = {}
    /\ prev = [patience |-> InitialPatience, best_validation_loss |-> inf,
               best_iter |-> unbound, test_score |-> 0]
    /\ seen = << >>
    /\ best_params = None
    /\ fed = << >>
    /\ n_ins = 28 * 28
    /\ hidden_layers_sizes = << 500, 500, 500 >>
    /\ layers = Stack(28 * 28, << 500, 500, 500 >>, n_layers)
    /\ logLayer = TopLayer(Stack(28 * 28, << 500, 500, 500 >>, n_layers),
                           << 500, 500, 500 >>)
    /\ raised = None
    /\ call = None
    /\ \E n_visible \in 1 .. MaxDim, n_hidden \in 1 .. MaxDim :
        \E initial_W \in [1 .. n_visible -> [1 .. n_hidden -> InitialEntries]] :
            tied = [initial_W |-> initial_W,
                    W |-> initial_W,
                    W_prime |-> dA_W_prime(T(initial_W), initial_W),
                    updates |-> "none"]
    /\ batch_size = 20
    /\ n_examples = [train |-> n_train_batches * 20,
                     valid |-> n_valid_batches * 20,
                     test |-> n_test_batches * 20]
    /\ visits = None

\* one call of layer_update on this dA: the updates give W its new value
TiedLayerUpdate ==
    /\ pc = "dA"
    /\ \E cost \in PVal :
        LET new_W == MatrixStep(tied.W, cost)
        IN  tied' = [tied EXCEPT !.W = new_W,
                                 !.W_prime = dA_W_prime(tied.W_prime, new_W),
                                 !.updates = "layer_update"]
    /\ UNCHANGED << training, sda, batches, pc, i >>

\* one call of train_model with this dA in the SdA
TiedTrainModel ==
    /\ pc = "dA"
    /\ \E cost \in PVal :
        LET new_W == MatrixStep(tied.W, cost)
        IN  tied' = [tied EXCEPT !.W = new_W,
                                 !.W_prime = dA_W_prime(tied.W_prime, new_W),
                                 !.updates = "train_model"]
    /\ UNCHANGED << training, sda, batches, pc, i >>

NextTied == TiedLayerUpdate \/ TiedTrainModel

SpecTied == InitTied /\ [][NextTied]_vars

\* ------------------------------------------- one pass over the datasets
\* One pretraining epoch of one layer over the training set, then one
\* validation and one test as the fine-tuning makes them, for datasets of
\* every small size and every small batch_size, to follow which examples the
\* minibatches hold.
InitEpoch ==
    /\ data = 0
    /\ pretraining_epochs = 1
    /\ training_epochs = 0
    /\ batch_size \in 1 .. MaxBatchSize
    /\ n_examples \in [train : 0 .. MaxExamples,
                       valid : 0 .. MaxExamples,
                       test : 0 .. MaxExamples]
    /\ n_train_batches = NBatches(n_examples.train, batch_size)
    /\ visits = [train |-> [e \in 0 .. (n_examples.train - 1) |-> 0],
                 valid |-> [e \in 0 .. (n_examples.valid - 1) |-> 0],
                 test |-> [e \in 0 .. (n_examples.test - 1) |-> 0]]
    /\ W = [k \in Layers |-> 0]
    /\ b = [k \in Layers |-> 0]
    /\ b_prime = [k \in Layers |-> 0]
    /\ logW = 0
    /\ logb = 0
    /\ pc = "epoch"
    /\ i = 0
    /\ epoch = 0
    /\ batch_index = 0
    /\ minibatch_index = 0
    /\ iter = unbound
    /\ patience = InitialPatience
    /\ best_validation_loss = inf
    /\ best_iter = unbound
    /\ test_score = 0
    /\ this_validation_loss = inf
    /\ preSteps = [k \in Layers |-> 0]
    /\ nsteps = 0
    /\ invoked = FALSE
    /\ broke = FALSE
    /\ touched = {}
    /\ prev = [patience |-> InitialPatience, best_validation_loss |-> inf,
               best_iter |-> unbound, test_score |-> 0]
    /\ seen = << >>
    /\ best_params = None
    /\ fed = << >>
    /\ n_ins = 28 * 28
    /\ hidden_layers_sizes = << 500, 500, 500 >>
    /\ layers = Stack(28 * 28, << 500, 500, 500 >>, n_layers)
    /\ logLayer = TopLayer(Stack(28 * 28, << 500, 500, 500 >>, n_layers),
                           << 500, 500, 500 >>)
    /\ raised = None
    /\ call = None
    /\ tied = None

\* what the pass leaves alone
epochfixed == << data, pretraining_epochs, training_epochs, n_train_batches,
                 W, b, b_prime, logW, logb, i, epoch, minibatch_index, iter,
                 patience, best_validation_loss, best_iter, test_score,
                 this_validation_loss, preSteps, nsteps, invoked, broke,
                 touched, prev, seen, fed, best_params,
                 n_ins, hidden_layers_sizes, layers, logLayer, call, tied,
                 batch_size, n_examples >>

\* c = layer_update(batch_index), line 403: the function runs on
\* train_set_x[batch_index*batch_size : (batch_index+1)*batch_size]
EpochBatch ==
    /\ pc = "epoch"
    /\ batch_index < n_train_batches
    /\ visits' = [visits EXCEPT !.train =
                    Visit(@, Slice(n_examples.train, batch_size, batch_index))]
    /\ batch_index' = batch_index + 1
    /\ UNCHANGED << epochfixed, pc, raised >>

\* the end of the loop of line 402 and the print of line 404, which reads c
\* and batch_index: names bound by the loop, if it made a pass
EpochPrint ==
    /\ pc = "epoch"
    /\ batch_index >= n_train_batches
    /\ IF n_train_batches = 0
       THEN /\ raised' = Exception("NameError", "c")
            /\ pc' = "raised"
       ELSE /\ raised' = raised
            /\ pc' = "validate"
    /\ UNCHANGED << epochfixed, batch_index, visits >>

\* validation_losses = [validate_model(i) for i in xrange(n_valid_batches)]
EpochValidate ==
    /\ pc = "validate"
    /\ visits' = [visits EXCEPT !.valid =
                    VisitAll(@, n_examples.valid, batch_size,
                             NBatches(n_examples.valid, batch_size))]
    /\ pc' = "test"
    /\ UNCHANGED << epochfixed, batch_index, raised >>

\* test_losses = [test_model(i) for i in xrange(n_test_batches)]
EpochTest ==
    /\ pc = "test"
    /\ visits' = [visits EXCEPT !.test =
                    VisitAll(@, n_examples.test, batch_size,
                             NBatches(n_examples.test, batch_size))]
    /\ pc' = "epoch_done"
    /\ UNCHANGED << epochfixed, batch_index, raised >>

NextEpoch ==
    \/ EpochBatch
    \/ EpochPrint
    \/ EpochValidate
    \/ EpochTest

SpecEpoch == InitEpoch /\ [][NextEpoch]_vars

\* ------------------------------------------------------------ properties
\* the names of layer k's parameters
LayerParams(k) == {PName("W", k), PName("b", k), PName("b_prime", k)}

\* C1: once a minibatch step has ended with patience <= iter (the break
\* was taken), no further training minibatch step is made, in this epoch or
\* in a later one.
C1_BreakStopsFineTuning == [][broke => nsteps' = nsteps]_vars

\* C2: a validation whose error is strictly below the best so far saves it
\* as best_validation_loss, saves iter as best_iter and stores the mean test
\* error of the current parameters as test_score, significant or not.
C2_BetterIsRecorded ==
    (invoked /\ (prev.best_validation_loss = inf
                 \/ this_validation_loss < prev.best_validation_loss))
        => /\ best_validation_loss = this_validation_loss
           /\ best_iter = iter
           /\ test_score = test(W, b, logW, logb, data)

C2_Witness ==
    /\ invoked
    /\ nsteps > 0
    /\ prev.best_validation_loss # inf
    /\ this_validation_loss < prev.best_validation_loss
    /\ this_validation_loss * 1000 >= prev.best_validation_loss * 995
    /\ best_iter = iter
    /\ test_score # prev.test_score

\* C3: a validation changes patience only when its error is below the
\* previous best times 0.995 (always so while the best is infinite), and
\* then to max(old patience, iter * patience_increase).
C3_PatienceRule ==
    invoked =>
        patience = IF \/ prev.best_validation_loss = inf
                      \/ this_validation_loss * 1000 < prev.best_validation_loss * 995
                   THEN (IF iter * 2 > prev.patience THEN iter * 2 ELSE prev.patience)
                   ELSE prev.patience

C3_Witness ==
    /\ invoked
    /\ nsteps > 0
    /\ prev.best_validation_loss # inf
    /\ this_validation_loss * 1000 < prev.best_validation_loss * 995
    /\ patience > prev.patience
    /\ patience = iter * 2

\* C4: a validation whose error is not strictly below the best so far (a
\* tie included) changes none of best_validation_loss, best_iter,
\* test_score and patience.
C4_NotBetterChangesNothing ==
    (invoked /\ prev.best_validation_loss # inf
             /\ this_validation_loss >= prev.best_validation_loss)
        => StopState = prev

C4_Witness ==
    /\ invoked
    /\ nsteps > 1
    /\ prev.best_validation_loss # inf
    /\ this_validation_loss = prev.best_validation_loss
    /\ best_iter < iter
    /\ StopState = prev

\* C5: fed the validation errors 0.5, 0.4, 0.41, 0.39 at four consecutive
\* iterations from patience = 10, the best validation loss is 0.5, 0.4,
\* 0.4, 0.39 after them, patience is 10 after each and no break is taken
\* (under SpecScript; the first iteration numbered 0 or 1).
Script == << 5000, 4000, 4100, 3900, 3800 >>

C5_ScriptedTrace ==
    LET n == Len(fed)
    IN  (n \in 1 .. 4 /\ fed = SubSeq(Script, 1, n))
            => /\ best_validation_loss = << 5000, 4000, 4000, 3900 >>[n]
               /\ patience = 10
               /\ patience > iter
               /\ ~broke

C5_Witness ==
    /\ fed = SubSeq(Script, 1, 4)
    /\ iter = 4
    /\ best_validation_loss = 3900
    /\ best_iter = 4
    /\ prev.best_validation_loss = 4000
    /\ prev.best_iter = 2

\* C6: after a training minibatch step the early stopping is invoked exactly
\* when the number of training minibatch steps made so far in fine-tuning
\* is a positive multiple of validation_frequency.
C6_ValidatesEveryFrequencySteps ==
    nsteps > 0 => (invoked <=> nsteps % validation_frequency = 0)

\* C7: a pretraining update of a layer is made only while no later layer
\* has been updated and no fine-tuning update has been made; so the layers
\* are pretrained one after the other and fine-tuning comes last.
C7_PhasesInOrder ==
    [][\A k \in Layers :
          preSteps'[k] # preSteps[k]
              => /\ nsteps = 0
                 /\ nsteps' = 0
                 /\ \A j \in Layers : j > k => preSteps[j] = 0 /\ preSteps'[j] = 0]_vars

C7_Witness ==
    /\ pc = "finetune"
    /\ nsteps >= 1
    /\ \A k \in Layers : preSteps[k] >= 2

\* C8: a pretraining step of layer k leaves W, b and b_prime of every other
\* layer and W and b of the logistic layer as they were.
C8_PretrainingTouchesOneLayer ==
    [][\A k \in Layers :
          preSteps'[k] # preSteps[k]
              => /\ \A j \in Layers \ {k} :
                        W'[j] = W[j] /\ b'[j] = b[j] /\ b_prime'[j] = b_prime[j]
                 /\ logW' = logW
                 /\ logb' = logb]_vars

C8_Witness ==
    /\ nsteps = 0
    /\ \E k \in Layers :
          /\ k >= 1
          /\ preSteps[k] >= 1
          /\ \A j \in Layers : j > k => preSteps[j] = 0
          /\ touched # {}
          /\ touched \subseteq LayerParams(k)
          /\ W[k - 1] # 0

\* C9: a fine-tuning step sets W and b of every layer and W and b of the
\* logistic layer to param - lr * gradient, every gradient taken at the
\* parameters held before the step.
C9_JointUpdate ==
    [][nsteps' # nsteps =>
          LET cost == negative_log_likelihood(W, b, logW, logb,
                          train_x(data, minibatch_index),
                          train_y(data, minibatch_index))
          IN  /\ \A k \in Layers :
                    /\ W'[k] = sgd(W[k], grad(cost, 2 * k + 1))
                    /\ b'[k] = sgd(b[k], grad(cost, 2 * k + 2))
              /\ logW' = sgd(logW, grad(cost, 2 * n_layers + 1))
              /\ logb' = sgd(logb, grad(cost, 2 * n_layers + 2))]_vars

C9_Witness ==
    /\ nsteps >= 2
    /\ logW # 0
    /\ \A k \in Layers : touched \cap {PName("W", k), PName("b", k)} # {}
    /\ touched \cap {PName("logW", n_layers), PName("logb", n_layers)} # {}

\* C10: no step taken while fine-tuning runs changes a decode bias b_prime.
C10_DecodeBiasKept == [][pc = "finetune" => b_prime' = b_prime]_vars

C10_Witness ==
    /\ pc = "done"
    /\ nsteps >= 2
    /\ \A k \in Layers : preSteps[k] >= 1
    /\ \E k \in Layers : b_prime[k] # 0

\* C11: the early stopping writes no parameter and saves none: best_params
\* stays None, and every fine-tuning step leaves exactly the parameters its
\* train_model call produced, so the run ends with those of the last step,
\* not with those of best_iter.
C11_NoSnapshotNoRollback ==
    [][nsteps' # nsteps =>
          /\ best_params' = None
          /\ best_params = None
          /\ [W |-> W', b |-> b', b_prime |-> b_prime', logW |-> logW', logb |-> logb']
                = train_model(W, b, b_prime, logW, logb,
                              train_x(data, minibatch_index),
                              train_y(data, minibatch_index))]_vars

C11_Witness ==
    /\ pc = "done"
    /\ nsteps >= 3
    /\ invoked
    /\ best_iter < iter
    /\ this_validation_loss > best_validation_loss
    /\ validate(W, b, logW, logb, data) > best_validation_loss
    /\ best_params = None

\* a step that takes the break: the first one of a run, or one that leaves
\* the minibatch loop before its last minibatch
C16_EarlyExit ==
    /\ nsteps' # nsteps
    /\ \/ ~broke /\ broke'
       \/ /\ minibatch_index + 1 < n_train_batches
          /\ (epoch' # epoch \/ pc' = "done")

\* C16: patience never decreases and is never below its initial value, and
\* the break is taken only with iter >= patience: the first break of a run,
\* and every step that leaves the minibatch loop before its last minibatch,
\* happen at an iteration that has reached the current patience, hence the
\* initial one.
C16_PatienceBoundsEarlyStop ==
    [][/\ patience' >= patience
       /\ patience' >= InitialPatience
       /\ C16_EarlyExit => (iter' >= patience' /\ iter' >= InitialPatience)]_vars

C16_Witness ==
    /\ broke
    /\ patience > InitialPatience
    /\ iter >= patience
    /\ n_train_batches > 1
    /\ minibatch_index = 0
    /\ epoch + 1 = training_epochs
    /\ pc = "done"

C18_Minimum ==
    CHOOSE m \in {seen[j].v : j \in DOMAIN seen} :
        \A j \in DOMAIN seen : m <= seen[j].v

C18_Earliest ==
    CHOOSE j \in DOMAIN seen :
        /\ seen[j].v = C18_Minimum
        /\ \A k \in 1 .. (j - 1) : seen[k].v # C18_Minimum

\* C18: best_validation_loss is the minimum of the validation errors seen so
\* far, best_iter the iteration of the earliest validation that attained it
\* and test_score the test error computed at that validation; before the
\* first validation they are +infinity, unbound and 0.  The best loss never
\* goes up from one step to the next.
C18_BestIsRunningMinimum ==
    /\ IF seen = << >>
       THEN /\ best_validation_loss = inf
            /\ best_iter = unbound
            /\ test_score = 0
       ELSE /\ best_validation_loss = C18_Minimum
            /\ best_iter = seen[C18_Earliest].iter
            /\ test_score = seen[C18_Earliest].t
    /\ prev.best_validation_loss # inf =>
            /\ best_validation_loss # inf
            /\ best_validation_loss <= prev.best_validation_loss

C18_Witness ==
    /\ Len(seen) >= 3
    /\ C18_Earliest = 2
    /\ seen[1].v > seen[2].v
    /\ seen[3].v = seen[2].v
    /\ best_iter = seen[2].iter
    /\ test_score = seen[2].t
    /\ seen[2].t # seen[1].t

\* passes through the loop bodies that the loops of lines 400-404 and
\* 471-510 still have to make, at most
C19_Remaining ==
    SumSeq([k \in 1 .. n_layers |->
                pretraining_epochs * n_train_batches - preSteps[k - 1]])
    + (CASE pc = "pretrain" -> training_epochs * n_train_batches
         [] pc = "finetune" -> (training_epochs - epoch) * n_train_batches
                                   - minibatch_index
         [] OTHER -> 0)

\* C19: the run terminates: it is always in one of the two loop nests, whose
\* bodies have no guard but the loop position, or at the end of
\* sgd_optimization_mnist, and every step lowers the number of passes still
\* to make, which is never negative; the fine-tuning never takes more
\* than training_epochs * n_train_batches steps, and with training_epochs = 0
\* it takes none and leaves best_validation_loss = +infinity, test_score = 0.
C19_FineTuningTerminates ==
    /\ [](pc \in {"pretrain", "finetune", "done"})
    /\ [][/\ C19_Remaining' < C19_Remaining
          /\ C19_Remaining' >= 0
          /\ nsteps' <= training_epochs * n_train_batches
          /\ training_epochs = 0 =>
               /\ nsteps' = 0
               /\ best_validation_loss' = inf
               /\ test_score' = 0]_vars

C19_Witness ==
    /\ pc = "done"
    /\ broke
    /\ nsteps > 0
    /\ nsteps < training_epochs * n_train_batches
    /\ training_epochs = MaxTrainingEpochs
    /\ C19_Remaining = 0

\* C12: with an empty hidden_layers_sizes the construction ends in the
\* exception that says a hidden layer is missing (the Exception that line 255
\* is written to raise), with no layer made; and no SdA is ever built with
\* zero layers.
C12_EmptySizesRejected ==
    /\ pc \in {"built", "called"} => Len(layers) >= 1
    /\ (Len(hidden_layers_sizes) = 0 /\ pc # "construct") =>
            /\ pc = "raised"
            /\ layers = << >>
            /\ logLayer = None
            /\ raised # None
            /\ raised.type = "Exception"

\* a dtype of integers, signed or not
C13_Integral(dtype) == dtype[1] \in {"int", "uint"}

\* C13: errors(y) raises the TypeError of line 100 when y does not have as
\* many entries as the minibatch has examples, raises NotImplementedError
\* when y is not of an integer dtype, and returns mean(neq(y_pred, y)) for a
\* vector of integers of the right length.
C13_ErrorsContract ==
    call # None =>
        /\ call.y.length # call.batch =>
                /\ call.outcome.raised # None
                /\ call.outcome.raised.type = "TypeError"
        /\ (call.y.length = call.batch /\ ~C13_Integral(call.y.dtype)) =>
                /\ call.outcome.raised # None
                /\ call.outcome.raised.type = "NotImplementedError"
        /\ (call.y.length = call.batch /\ C13_Integral(call.y.dtype)
                /\ call.y.ndim = 1) =>
                /\ call.outcome.raised = None
                /\ call.outcome.returned =
                        [op |-> "mean",
                         of |-> [op |-> "neq", left |-> "y_pred", right |-> "y"]]

\* C14: a built SdA has one layer per entry of hidden_layers_sizes, the first
\* with n_visible = n_ins, layer j with n_hidden = hidden_layers_sizes[j],
\* every layer's n_hidden equal to the next one's n_visible, and a logistic
\* layer whose n_in is the last layer's n_hidden.
C14_SizesChain ==
    pc \in {"built", "called"} =>
        /\ Len(layers) = Len(hidden_layers_sizes)
        /\ Len(layers) >= 1
        /\ layers[1].n_visible = n_ins
        /\ \A j \in 1 .. Len(layers) : layers[j].n_hidden = hidden_layers_sizes[j]
        /\ \A j \in 1 .. (Len(layers) - 1) :
                layers[j].n_hidden = layers[j + 1].n_visible
        /\ logLayer.n_in = layers[Len(layers)].n_hidden

C14_Witness ==
    /\ pc = "built"
    /\ Len(layers) = 3
    /\ n_ins # hidden_layers_sizes[1]
    /\ hidden_layers_sizes[1] # hidden_layers_sizes[2]
    /\ hidden_layers_sizes[2] # hidden_layers_sizes[3]
    /\ logLayer.n_in = hidden_layers_sizes[3]

\* C20: the input of every layer but the first is the hidden_values of the
\* layer below, the encoding of that layer's own clean input and not its y,
\* which went through the corruption mask; so is the logistic layer's input.
\* The hidden_values of the j-th layer went through the encoders of the
\* layers up to it, in order, and reads no parameter of a layer above.
C20_CleanChain ==
    /\ layers # << >> => layers[1].x = input_x
    /\ \A j \in 2 .. Len(layers) :
            /\ layers[j].x = layers[j - 1].hidden_values
            /\ layers[j].x # layers[j - 1].y
    /\ \A j \in 1 .. Len(layers) :
            /\ layers[j].hidden_values.noise = {}
            /\ layers[j].hidden_values.enc = [m \in 1 .. j |-> m - 1]
            /\ layers[j].y.noise = {j - 1}
            /\ Params(layers[j].hidden_values)
                    = UNION {{PName("W", m), PName("b", m)} : m \in 0 .. (j - 1)}
    /\ logLayer # None =>
            /\ logLayer.input = layers[Len(layers)].hidden_values
            /\ logLayer.input # layers[Len(layers)].y

C20_Witness ==
    /\ pc = "built"
    /\ Len(layers) = 3
    /\ logLayer.input.enc = << 0, 1, 2 >>
    /\ logLayer.input.noise = {}
    /\ layers[3].x = layers[2].hidden_values
    /\ layers[2].y.noise = {1}

\* C15: at construction and after every layer_update and train_model call,
\* W_prime is the transpose of the value W has then: it has the shape of W
\* turned round and its entry (c, r) is the entry (r, c) of W.
C15_TiedWeights ==
    tied # None =>
        /\ DOMAIN tied.W_prime = DOMAIN tied.W[1]
        /\ \A c \in DOMAIN tied.W_prime :
                /\ DOMAIN tied.W_prime[c] = DOMAIN tied.W
                /\ \A r \in DOMAIN tied.W : tied.W_prime[c][r] = tied.W[r][c]

C15_Witness ==
    /\ tied # None
    /\ tied.updates = "train_model"
    /\ tied.W # tied.initial_W
    /\ DOMAIN tied.W # DOMAIN tied.W_prime
    /\ tied.W_prime # T(tied.initial_W)
    /\ tied.W_prime = << << 1, 2 >> >>
    /\ tied.W = << << 1 >>, << 2 >> >>

\* C21: whatever the sizes of the datasets and batch_size > 0, once the
\* minibatch loop of a pretraining epoch is over every training example was
\* in exactly one of its minibatches, and after a validation and a test every
\* validation example and every test example was in a minibatch whose error
\* went into the mean.
C21_EpochCoversPartition ==
    /\ pc \in {"raised", "validate", "test", "epoch_done"} =>
            \A e \in DOMAIN visits.train : visits.train[e] = 1
    /\ pc \in {"test", "epoch_done"} =>
            \A e \in DOMAIN visits.valid : visits.valid[e] >= 1
    /\ pc = "epoch_done" =>
            \A e \in DOMAIN visits.test : visits.test[e] >= 1

=============================================================================
